---- MODULE Spec2Model ----
(***************************************************************************)
(* A model of the Fermi-Dirac evaluation engine of backend/physics.py and  *)
(* of the service endpoints of backend/main.py with the request models of  *)
(* backend/models.py.                                                      *)
(*                                                                         *)
(* Numbers.  A float64 value is modelled by a record [k, n, d]:            *)
(*   k = "rat"    the rational n/d (d > 0, lowest terms)                   *)
(*   k = "exp"    e^(n/d), the result of np.exp on a finite non-zero       *)
(*                argument that neither overflows nor underflows           *)
(*   k = "expp1"  e^(n/d) + 1                                              *)
(*   k = "sig"    1/(e^(n/d) + 1)                                          *)
(*   k = "cosh2"  e^(n/d) + e^-(n/d)                                       *)
(*   k = "sech"   2/(e^(n/d) + e^-(n/d))                                   *)
(*   k = "inf"    +Infinity (n = 1) or -Infinity (n = -1)                  *)
(*   k = "nan"    NaN                                                      *)
(*   k = "tiny"   a positive subnormal temperature below 2.8e-320 K, whose *)
(*                product with K_BOLTZMANN_EV rounds to 0.0                *)
(* the derivative's scaled values by [k = "sech2", n, d, sn, sd] for       *)
(* (sn/sd) * sech^2(n/d), and the logarithmic grid's values by             *)
(* [k = "log" | "dlog" | "pow10", a, b, n, d], described at np.log10 and   *)
(* np.power below.  Arithmetic on rationals is exact; np.exp               *)
(* overflows to +Infinity and underflows to 0 where float64 does, and      *)
(* e^a + 1.0 is absorbed to 1.0 or to e^a where float64 absorbs it.        *)
(* Relative rounding errors of one unit in the last place are not tracked. *)
(*                                                                         *)
(* Units.  An energy is an integer count of EUnit = 2^-54 eV and a         *)
(* temperature an integer count of TUnit = EUnit / K_BOLTZMANN_EV          *)
(* (6.4418e-13 K), so that k_B * T is exactly T energy units; the float64  *)
(* products and quotients of these quantities are exact in that range.     *)
(* The zero-temperature tolerance 1e-10 K is 155.236 temperature units.    *)
(***************************************************************************)
EXTENDS Integers, Sequences, FiniteSets

VARIABLES pc, op, args, ret

vars == <<pc, op, args, ret>>

----------------------------------------------------------------------------
(* Bounds of the model *)

MaxLen == 2

MaxPoints == 4

MaxGrid == 3

MaxTemps == 3

----------------------------------------------------------------------------
(* float64 values *)

Abs(a) == IF a < 0 THEN -a ELSE a

RECURSIVE GCD(_, _)
GCD(a, b) == IF b = 0 THEN a ELSE GCD(b, a % b)

R(n, d) ==
    LET s == IF d < 0 THEN -1 ELSE 1
        g == GCD(Abs(n), Abs(d))
    IN  [k |-> "rat", n |-> (s * n) \div g, d |-> (s * d) \div g]

F(i) == [k |-> "rat", n |-> i, d |-> 1]

PInf == [k |-> "inf", n |-> 1, d |-> 0]

NInf == [k |-> "inf", n |-> -1, d |-> 0]

NaN == [k |-> "nan", n |-> 0, d |-> 0]

\* a positive subnormal float64 below 2.8e-320: non-zero, greater than 0,
\* and so small that its product with k_B rounds to 0.0
Tiny == [k |-> "tiny", n |-> 1, d |-> 1]

IsRat(v) == v.k = "rat"

IsNaN(v) == v.k = "nan"

IsFinite(v) == v.k \notin {"inf", "nan"}

Sign(v) == IF v.n > 0 THEN 1 ELSE IF v.n < 0 THEN -1 ELSE 0

\* the rational a = n/d compared with the integer c
RatLeInt(v, c) == v.n <= c * v.d

RatGeInt(v, c) == v.n >= c * v.d

Neg(v) ==
    CASE v.k = "rat" -> [k |-> "rat", n |-> -v.n, d |-> v.d]
      [] v.k = "inf" -> [k |-> "inf", n |-> -v.n, d |-> 0]
      [] v.k = "nan" -> NaN
      [] v.k = "sech2" -> [v EXCEPT !.sn = -v.sn]

\* IEEE-754 addition, for the operand shapes the engine produces
Add(v, w) ==
    CASE IsNaN(v) \/ IsNaN(w) -> NaN
      [] v.k = "inf" /\ w.k = "inf" -> IF v.n = w.n THEN v ELSE NaN
      [] v.k = "inf" -> v
      [] w.k = "inf" -> w
      [] v.k = "rat" /\ w.k = "rat" -> R(v.n * w.d + w.n * v.d, v.d * w.d)
      [] v.k = "tiny" /\ w.k = "rat" /\ w.n = 0 -> v
      \* e^a + 1.0: float64 absorbs the smaller term once |a| >= 37
      [] v.k = "exp" /\ w = F(1) ->
            IF RatLeInt(v, -37) THEN F(1)
            ELSE IF RatGeInt(v, 37) THEN v
            ELSE [k |-> "expp1", n |-> v.n, d |-> v.d]
      [] v.k = "rat" /\ v.n = 0 /\ w.k = "log" -> w
      \* (n/d) * (log10(b) - log10(a)) + log10(a)
      [] v.k = "dlog" /\ w.k = "log" /\ w.a = v.a ->
            [k |-> "log", a |-> v.a, b |-> v.b, n |-> v.n, d |-> v.d]
      \* e^a + e^-a
      [] v.k = "exp" /\ w.k = "exp" /\ w.n = -v.n /\ w.d = v.d ->
            [k |-> "cosh2", n |-> Abs(v.n), d |-> v.d]

\* differences of logarithms stay symbolic: (n/d) * (log10(b) - log10(a))
Sub(v, w) ==
    CASE v.k = "log" /\ w.k = "log" ->
            IF v.a = w.a THEN F(0)
            ELSE [k |-> "dlog", a |-> w.a, b |-> v.a, n |-> 1, d |-> 1]
      [] v.k = "log" /\ w.k \in {"inf", "nan"} -> Neg(w)
      [] v.k \in {"inf", "nan"} /\ w.k = "log" -> v
      [] OTHER -> Add(v, Neg(w))

Mul(v, w) ==
    CASE IsNaN(v) \/ IsNaN(w) -> NaN
      [] v.k = "inf" \/ w.k = "inf" ->
            IF Sign(v) * Sign(w) = 0 THEN NaN
            ELSE [k |-> "inf", n |-> Sign(v) * Sign(w), d |-> 0]
      [] v.k = "rat" /\ w.k = "rat" -> R(v.n * w.n, v.d * w.d)
      \* k_B * T underflows to 0.0
      [] v = F(1) /\ w.k = "tiny" -> F(0)
      [] v.k = "sech2" /\ w.k = "rat" /\ w.n # 0 ->
            LET s == R(v.sn * w.n, v.sd * w.d)
            IN  [v EXCEPT !.sn = s.n, !.sd = s.d]
      [] v.k = "rat" /\ w.k = "dlog" ->
            IF v.n = 0 THEN F(0)
            ELSE LET s == R(v.n * w.n, v.d * w.d)
                 IN  [w EXCEPT !.n = s.n, !.d = s.d]

\* IEEE-754 division: x/0 is an infinity or NaN (numpy warns, it does not raise)
Div(v, w) ==
    CASE IsNaN(v) \/ IsNaN(w) -> NaN
      [] v.k = "inf" /\ w.k = "inf" -> NaN
      [] v.k = "inf" /\ w.k = "rat" ->
            [k |-> "inf", n |-> v.n * (IF w.n < 0 THEN -1 ELSE 1), d |-> 0]
      [] v.k = "rat" /\ w.k = "inf" -> F(0)
      [] v.k = "rat" /\ w.k = "rat" ->
            IF w.n # 0 THEN R(v.n * w.d, v.d * w.n)
            ELSE IF v.n = 0 THEN NaN
            ELSE [k |-> "inf", n |-> Sign(v), d |-> 0]
      [] v = F(1) /\ w.k = "exp" -> [k |-> "exp", n |-> -w.n, d |-> w.d]
      [] v = F(1) /\ w.k = "expp1" -> [k |-> "sig", n |-> w.n, d |-> w.d]
      [] v = F(2) /\ w.k = "cosh2" -> [k |-> "sech", n |-> w.n, d |-> w.d]
      [] v.k = "sech2" /\ w.k = "rat" /\ w.n # 0 -> Mul(v, R(w.d, w.n))
      [] v.k = "dlog" /\ w.k = "rat" /\ w.n # 0 -> Mul(R(w.d, w.n), v)

Square(v) ==
    CASE IsNaN(v) -> NaN
      [] v.k = "inf" -> PInf
      [] v.k = "rat" -> R(v.n * v.n, v.d * v.d)
      [] v.k = "sech" -> [k |-> "sech2", n |-> v.n, d |-> v.d, sn |-> 1, sd |-> 1]

\* IEEE-754 comparisons: every comparison with NaN is false
Lt(v, w) ==
    CASE IsNaN(v) \/ IsNaN(w) -> FALSE
      [] v.k = "inf" /\ w.k = "inf" -> v.n < w.n
      [] v.k = "inf" -> v.n < 0
      [] w.k = "inf" -> w.n > 0
      [] v.k = "rat" /\ w.k = "rat" -> v.n * w.d < w.n * v.d
      [] v.k = "tiny" /\ w.k = "rat" -> w.n > 0
      [] v.k = "rat" /\ w.k = "tiny" -> v.n <= 0

Gt(v, w) == Lt(w, v)

Le(v, w) == ~IsNaN(v) /\ ~IsNaN(w) /\ ~Lt(w, v)

\* np.exp: overflow to +Infinity above 709.78, underflow to 0 below -745.13
Exp(v) ==
    CASE IsNaN(v) -> NaN
      [] v.k = "inf" -> IF v.n > 0 THEN PInf ELSE F(0)
      [] v.k = "rat" ->
            IF v.n = 0 THEN F(1)
            ELSE IF RatGeInt(v, 710) THEN PInf
            ELSE IF RatLeInt(v, -746) THEN F(0)
            ELSE [k |-> "exp", n |-> v.n, d |-> v.d]

\* np.log10: -Infinity at 0 and NaN below (numpy warns, it does not raise).
\* [k = "log", a, b, n, d] is log10(a) + (n/d) * (log10(b) - log10(a)).
Log10(v) ==
    CASE IsNaN(v) -> NaN
      [] v.k = "inf" -> IF v.n > 0 THEN PInf ELSE NaN
      [] v.k = "rat" ->
            IF v.n < 0 THEN NaN
            ELSE IF v.n = 0 THEN NInf
            ELSE [k |-> "log", a |-> v, b |-> v, n |-> 0, d |-> 1]

\* np.power(10, y): [k = "pow10", a, b, n, d] is a^(1 - n/d) * b^(n/d), a
\* float near a when n = 0 (the round trip 10**log10(a) is not exact).
Power10(v) ==
    CASE IsNaN(v) -> NaN
      [] v.k = "inf" -> IF v.n > 0 THEN PInf ELSE F(0)
      [] v.k = "log" -> [k |-> "pow10", a |-> v.a, b |-> v.b, n |-> v.n, d |-> v.d]

AbsV(v) ==
    CASE IsNaN(v) -> NaN
      [] v.k = "inf" -> PInf
      [] v.k = "rat" -> [k |-> "rat", n |-> Abs(v.n), d |-> v.d]
      [] v.k = "tiny" -> v

\* np.clip
Clip(v, lo, hi) == IF Lt(v, lo) THEN lo ELSE IF Gt(v, hi) THEN hi ELSE v

\* np.isclose(a, b, atol=atol) with the default rtol = 1e-5:
\* |a - b| <= atol + rtol * |b|
isclose(a, b, atol) ==
    Le(AbsV(Sub(a, b)), Add(atol, Mul(R(1, 100000), AbsV(b))))

zeros_like(a) == [i \in DOMAIN a |-> F(0)]

\* a[mask] = vals[mask]
set_masked(a, mask, vals) ==
    [i \in DOMAIN a |-> IF mask[i] THEN vals[i] ELSE a[i]]

Ok(value) == [raised |-> FALSE, exc |-> "", msg |-> "", value |-> value]

Raise(exc, msg) == [raised |-> TRUE, exc |-> exc, msg |-> msg, value |-> <<>>]

----------------------------------------------------------------------------
(* physics.py *)

\* Boltzmann constant, in energy units per temperature unit
K_BOLTZMANN_EV == F(1)

\* atol = 1e-10 K, in temperature units
ZERO_T_ATOL == R(155236, 1000)

OVERFLOW_THRESHOLD == 700

zero_temperature_without_isclose(temperature) == Le(temperature, F(0))

zero_temperature(temperature) ==
    Le(temperature, F(0)) \/ isclose(temperature, F(0), ZERO_T_ATOL)

\* np.where(energy < mu, 1.0, np.where(energy > mu, 0.0, 0.5))
heaviside_swapped(energy, mu) ==
    [i \in DOMAIN energy |->
        IF Lt(energy[i], mu) THEN F(0)
        ELSE IF Gt(energy[i], mu) THEN F(1)
        ELSE R(1, 2)]

heaviside(energy, mu) ==
    [i \in DOMAIN energy |->
        IF Lt(energy[i], mu) THEN F(1)
        ELSE IF Gt(energy[i], mu) THEN F(0)
        ELSE R(1, 2)]

mask_low(x) == [i \in DOMAIN x |-> Lt(x[i], F(-OVERFLOW_THRESHOLD))]

mask_high(x) == [i \in DOMAIN x |-> Gt(x[i], F(OVERFLOW_THRESHOLD))]

mask_mid_forgets_high(low, high) == [i \in DOMAIN low |-> ~low[i]]

mask_mid(low, high) == [i \in DOMAIN low |-> ~(low[i] \/ high[i])]

low_value_zero(xi) == F(0)

low_value(xi) == F(1)

high_value_positive_exponent(xi) == Exp(xi)

high_value(xi) == Exp(Neg(xi))

mid_value_without_one(xi) == Div(F(1), Exp(xi))

mid_value(xi) == Div(F(1), Add(Exp(xi), F(1)))

BoolToInt(b) == IF b THEN 1 ELSE 0

\* The result carries the trace of the evaluation: the branch taken, the
\* exponent arguments x (empty when the division was not evaluated) and, per
\* element, how many of the three masked assignments wrote it.
Traced(branch, value, x, writes) ==
    [raised |-> FALSE, exc |-> "", msg |-> "", value |-> value,
     branch |-> branch, x |-> x, writes |-> writes]

fermi_dirac(energy, temperature, mu, k_B) ==
    IF zero_temperature(temperature)
    THEN Traced("step", heaviside(energy, mu), <<>>, <<>>)
    ELSE LET k_B_T == Mul(k_B, temperature)
             x == [i \in DOMAIN energy |-> Div(Sub(energy[i], mu), k_B_T)]
             low == mask_low(x)
             high == mask_high(x)
             mid == mask_mid(low, high)
             occ0 == zeros_like(energy)
             occ1 == set_masked(occ0, low, [i \in DOMAIN x |-> low_value(x[i])])
             occ2 == set_masked(occ1, high, [i \in DOMAIN x |-> high_value(x[i])])
             occ3 == set_masked(occ2, mid, [i \in DOMAIN x |-> mid_value(x[i])])
         IN  Traced("regimes", occ3, x,
                    [i \in DOMAIN x |->
                        BoolToInt(low[i]) + BoolToInt(high[i]) + BoolToInt(mid[i])])

RECURSIVE argmin_from(_, _, _)
argmin_from(a, i, best) ==
    IF i > Len(a) THEN best
    ELSE argmin_from(a, i + 1, IF Lt(a[i], a[best]) THEN i ELSE best)

\* np.argmin: the first index of the minimum; ValueError on an empty array
argmin(a) == argmin_from(a, 2, 1)

STABLE_BOUND == 500

derivative_zero_temperature_only_zero(temperature) == temperature = F(0)

derivative_zero_temperature(temperature) == Le(temperature, F(0))

mask_stable(x) == [i \in DOMAIN x |-> Lt(AbsV(x[i]), F(STABLE_BOUND))]

stable_value(xi, k_B_T) ==
    LET exp_half == Exp(Div(xi, F(2)))
        sech_squared == Square(Div(F(2), Add(exp_half, Div(F(1), exp_half))))
    IN  Div(Neg(sech_squared), Mul(F(4), k_B_T))

fermi_dirac_derivative(energy, temperature, mu, k_B) ==
    IF derivative_zero_temperature(temperature)
    THEN IF Len(energy) = 0
         THEN Raise("ValueError", "attempt to get argmin of an empty sequence")
         ELSE LET result == zeros_like(energy)
                  idx == argmin([i \in DOMAIN energy |-> AbsV(Sub(energy[i], mu))])
              IN  IF Len(energy) > 1
                  THEN LET dE == AbsV(Sub(energy[2], energy[1]))
                       IN  Traced("spike",
                                  [result EXCEPT ![idx] = Div(F(-1), dE)],
                                  <<>>, <<>>)
                  ELSE Traced("spike", result, <<>>, <<>>)
    ELSE LET k_B_T == Mul(k_B, temperature)
             x == [i \in DOMAIN energy |-> Div(Sub(energy[i], mu), k_B_T)]
             stable == mask_stable(x)
             result == set_masked(zeros_like(energy), stable,
                                  [i \in DOMAIN x |-> stable_value(x[i], k_B_T)])
         IN  Traced("sech2", result, x, [i \in DOMAIN x |-> BoolToInt(stable[i])])

maxwell_boltzmann_zero_temperature(temperature) == Le(temperature, F(0))

maxwell_boltzmann(energy, temperature, mu, k_B) ==
    IF maxwell_boltzmann_zero_temperature(temperature)
    THEN Traced("zeros", zeros_like(energy), <<>>, <<>>)
    ELSE LET x == [i \in DOMAIN energy |->
                      Div(Sub(energy[i], mu), Mul(k_B, temperature))]
             x_clipped == [i \in DOMAIN x |->
                      Clip(x[i], F(-700), F(700))]
         IN  Traced("exp", [i \in DOMAIN x |-> Exp(Neg(x_clipped[i]))], x, <<>>)

\* np.linspace(start, stop, num) with endpoint=True
linspace(start, stop, num) ==
    IF num < 0
    THEN Raise("ValueError", "Number of samples must be non-negative")
    ELSE LET div == num - 1
             delta == Sub(stop, start)
             step == Div(delta, F(div))
             y == [i \in 1..num |->
                      Add(IF div > 0
                          THEN IF step = F(0)
                               THEN Mul(Div(F(i - 1), F(div)), delta)
                               ELSE Mul(F(i - 1), step)
                          ELSE Mul(F(i - 1), delta),
                          start)]
         IN  Ok([i \in 1..num |-> IF num > 1 /\ i = num THEN stop ELSE y[i]])

\* np.logspace(start, stop, num) with base 10
logspace(start, stop, num) ==
    LET y == linspace(start, stop, num)
    IN  IF y.raised THEN y
        ELSE Ok([i \in DOMAIN y.value |-> Power10(y.value[i])])

generate_energy_grid_unguarded_log(e_min, e_max, n_points, spacing) ==
    IF spacing = "linear" THEN linspace(e_min, e_max, n_points)
    ELSE IF spacing = "log"
         THEN logspace(Log10(e_min), Log10(e_max), n_points)
    ELSE Raise("ValueError", "Unknown spacing type")

generate_energy_grid(e_min, e_max, n_points, spacing) ==
    IF spacing = "linear"
    THEN linspace(e_min, e_max, n_points)
    ELSE IF spacing = "log"
    THEN IF Le(e_min, F(0))
         THEN Raise("ValueError", "Logarithmic spacing requires positive e_min")
         ELSE logspace(Log10(e_min), Log10(e_max), n_points)
    ELSE Raise("ValueError", "Unknown spacing type")

\* [fermi_dirac(energy, T, mu, k_B) for T in temperatures]
compute_multi_temperature(energy, temperatures, mu, k_B) ==
    Ok([i \in DOMAIN temperatures |->
            fermi_dirac(energy, temperatures[i], mu, k_B).value])

\* for i, T in enumerate(temperatures): result[i, :] = fermi_dirac(...)
RECURSIVE surface_rows(_, _, _, _, _, _)
surface_rows(result, i, energy, temperatures, mu, k_B) ==
    IF i > Len(temperatures) THEN result
    ELSE surface_rows(
             [result EXCEPT ![i] = fermi_dirac(energy, temperatures[i], mu, k_B).value],
             i + 1, energy, temperatures, mu, k_B)

compute_2d_surface_first_row(energy, temperatures, mu, k_B) ==
    Ok([i \in DOMAIN temperatures |->
            fermi_dirac(energy, temperatures[1], mu, k_B).value])

compute_2d_surface(energy, temperatures, mu, k_B) ==
    LET result == [i \in DOMAIN temperatures |-> zeros_like(energy)]
    IN  Ok(surface_rows(result, 1, energy, temperatures, mu, k_B))

----------------------------------------------------------------------------
(* main.py and models.py: the service endpoints.  Requests carry kelvin and
   eV values; the result of a handler is its HTTP status and the engine
   calls it made, in order, each with the arguments it passed. *)

EngineCall(fn, a) == [fn |-> fn, a |-> a]

Response(status, calls) == [status |-> status, calls |-> calls]

\* Field(ge=lo, le=hi)
InRange(v, lo, hi) == Le(lo, v) /\ Le(v, hi)

\* FermiDiracRequest: the field constraints and energy_max_greater_than_min
FermiDiracRequest(req) ==
    /\ InRange(req.temperature, F(0), F(1000000))
    /\ InRange(req.mu, F(-10), F(10))
    /\ InRange(req.energy_min, F(-100), F(100))
    /\ InRange(req.energy_max, F(-100), F(100))
    /\ req.points >= 10 /\ req.points <= 10000
    /\ ~Le(req.energy_max, req.energy_min)

\* sorted(set(v))
RECURSIVE sorted(_)
sorted(S) ==
    IF S = {} THEN <<>>
    ELSE LET least == CHOOSE v \in S : \A w \in S : Le(v, w)
         IN  <<least>> \o sorted(S \ {least})

\* MultiTemperatureRequest: the field constraints and validate_temperatures
MultiTemperatureRequest(req) ==
    /\ Len(req.temperatures) >= 1 /\ Len(req.temperatures) <= 20
    /\ ~\E k \in DOMAIN req.temperatures : Lt(req.temperatures[k], F(0))
    /\ InRange(req.mu, F(-10), F(10))
    /\ req.points >= 10 /\ req.points <= 5000

validate_temperatures(v) == sorted({v[k] : k \in DOMAIN v})

\* SurfaceRequest: the field constraints
SurfaceRequest(req) ==
    /\ req.energy_points >= 10 /\ req.energy_points <= 1000
    /\ Le(R(1, 10), req.temp_min)
    /\ Le(req.temp_max, F(1000000))
    /\ req.temp_points >= 10 /\ req.temp_points <= 500
    /\ req.temp_scale \in {"linear", "log"}

grid_call(e_min, e_max, n_points) ==
    EngineCall("generate_energy_grid",
               [e_min |-> e_min, e_max |-> e_max, n_points |-> n_points])

curve_call(fn, energy, temperature, mu) ==
    EngineCall(fn, [energy |-> energy, temperature |-> temperature, mu |-> mu])

\* POST /fermi-dirac
compute_fermi_dirac(req) ==
    IF ~FermiDiracRequest(req) THEN Response(422, <<>>)
    ELSE LET energy == generate_energy_grid(req.energy_min, req.energy_max,
                                            req.points, "linear")
             made == <<grid_call(req.energy_min, req.energy_max, req.points)>>
         IN  IF energy.raised THEN Response(500, made)
             ELSE Response(200,
                    made \o <<curve_call("fermi_dirac", energy.value,
                                         req.temperature, req.mu),
                              EngineCall("thermal_smearing_width",
                                         [temperature |-> req.temperature])>>)

\* for T in request.temperatures: fermi_dirac, and maxwell_boltzmann if
\* requested and T > 0
RECURSIVE curves(_, _, _, _, _)
curves(energy, temperatures, mu, include_maxwell_boltzmann, k) ==
    IF k > Len(temperatures) THEN <<>>
    ELSE <<curve_call("fermi_dirac", energy, temperatures[k], mu)>>
         \o (IF include_maxwell_boltzmann /\ Gt(temperatures[k], F(0))
             THEN <<curve_call("maxwell_boltzmann", energy, temperatures[k], mu)>>
             ELSE <<>>)
         \o curves(energy, temperatures, mu, include_maxwell_boltzmann, k + 1)

\* POST /multi-temperature: compute_multi_temperature of main.py
main_compute_multi_temperature(req) ==
    IF ~MultiTemperatureRequest(req) THEN Response(422, <<>>)
    ELSE LET energy == generate_energy_grid(req.energy_min, req.energy_max,
                                            req.points, "linear")
             made == <<grid_call(req.energy_min, req.energy_max, req.points)>>
         IN  IF energy.raised THEN Response(500, made)
             ELSE Response(200,
                    made \o curves(energy.value,
                                   validate_temperatures(req.temperatures),
                                   req.mu, req.include_maxwell_boltzmann, 1))

\* GET /zero-temperature
compute_zero_temperature(req) ==
    LET energy == generate_energy_grid(req.energy_min, req.energy_max,
                                       req.points, "linear")
        made == <<grid_call(req.energy_min, req.energy_max, req.points)>>
    IN  IF energy.raised THEN Response(500, made)
        ELSE Response(200,
               made \o <<curve_call("fermi_dirac", energy.value, F(0), req.mu)>>)

\* the temperature axis of POST /surface
temperature_axis(req) ==
    IF req.temp_scale = "log"
    THEN logspace(Log10(IF Lt(req.temp_min, R(1, 10)) THEN R(1, 10)
                        ELSE req.temp_min),
                  Log10(req.temp_max), req.temp_points)
    ELSE linspace(req.temp_min, req.temp_max, req.temp_points)

\* POST /surface
compute_surface(req) ==
    IF ~SurfaceRequest(req) THEN Response(422, <<>>)
    ELSE LET energy == generate_energy_grid(req.energy_min, req.energy_max,
                                            req.energy_points, "linear")
             made == <<grid_call(req.energy_min, req.energy_max,
                                 req.energy_points)>>
             temperatures == temperature_axis(req)
         IN  IF energy.raised \/ temperatures.raised THEN Response(500, made)
             ELSE Response(200,
                    made \o <<EngineCall("compute_2d_surface",
                                [energy |-> energy.value,
                                 temperatures |-> temperatures.value,
                                 mu |-> req.mu])>>)

\* GET /derivative: with an empty grid the zero-temperature branch of
\* fermi_dirac_derivative raises, which the handler turns into a 500
compute_derivative(req) ==
    LET energy == generate_energy_grid(req.energy_min, req.energy_max,
                                       req.points, "linear")
        made == <<grid_call(req.energy_min, req.energy_max, req.points)>>
    IN  IF energy.raised THEN Response(500, made)
        ELSE Response(
               IF derivative_zero_temperature(req.temperature)
                  /\ Len(energy.value) = 0
               THEN 500 ELSE 200,
               made \o <<curve_call("fermi_dirac_derivative", energy.value,
                                    req.temperature, req.mu)>>)

\* GET /export/csv
export_csv(req) ==
    LET energy == generate_energy_grid(req.energy_min, req.energy_max,
                                       req.points, "linear")
        made == <<grid_call(req.energy_min, req.energy_max, req.points)>>
    IN  IF energy.raised THEN Response(500, made)
        ELSE Response(200,
               made \o <<curve_call("fermi_dirac", energy.value,
                                    req.temperature, req.mu)>>)

----------------------------------------------------------------------------
(* The inputs the model draws *)

\* Energies around the chemical potential: at it, one and two units off,
\* half a k_B*T off at T = 156, and at and just beyond |x| = 700 at T = 156.
EnergySamples == {-109202, -109200, -78, -1, 0, 2, 78, 109200, 109202}

MuSamples == {-78, 0}

\* negative, zero, positive within the tolerance (155 units = 0.998e-10 K),
\* and positive beyond it
TemperatureSamples == {-200, -3, 0, 155, 156, 312}

\* the sampled temperatures, and one whose k_B*T underflows
Temperatures == {F(t) : t \in TemperatureSamples} \cup {Tiny}

\* base = 1: the energies are offsets from 0.5 eV, where the float64
\* spacing is one unit below and two units above; base = 0: offsets from 0,
\* where every integer count of units is a float64.
Representable(base, e) == base = 0 \/ e <= 0 \/ e % 2 = 0

RECURSIVE SeqsUpTo(_, _)
SeqsUpTo(S, n) ==
    IF n = 0 THEN {<<>>}
    ELSE LET shorter == SeqsUpTo(S, n - 1)
         IN  shorter \cup {Append(q, e) : q \in {r \in shorter : Len(r) = n - 1}, e \in S}

EnergyArrays == SeqsUpTo(EnergySamples, MaxLen)

\* Energies for the derivative: at mu, half a k_B*T on either side at
\* T = 156 (two points equally near mu = 0), and at |x| = 500 at T = 156;
\* three of them make a non-uniform grid.
DerivativeEnergySamples == {-78000, -78, 0, 78}

DerivativeArrays == SeqsUpTo(DerivativeEnergySamples, MaxGrid)

\* Energies for the classical limit: at mu, half a k_B*T off, and beyond
\* |x| = 700 on either side at T = 156.
ClassicalEnergySamples == {-109202, -78, 0, 109202}

ClassicalArrays == SeqsUpTo(ClassicalEnergySamples, MaxLen)

ToFloat64(a) == [i \in DOMAIN a |-> F(a[i])]

\* Grids and temperature lists for the batch functions: the lists include
\* unsorted ones and ones with duplicates.
BatchGrids == {<<>>, <<0>>, <<-78, 0, 109202>>}

BatchTemperatureSamples == {0, 156, 312}

TemperatureLists == SeqsUpTo(BatchTemperatureSamples, MaxTemps)

GridBounds == {-2, 0, 2, 6}

\* Request values, in kelvin and eV: on, inside and outside the limits the
\* request models set.
ServiceTemperatures == {F(-5), F(0), F(300)}

ServiceTemperatureLists ==
    {<<>>, <<F(0)>>, <<F(300), F(0), F(300)>>, <<F(-5), F(300)>>}

ServiceMus == {F(0), F(11)}

ServiceEnergyBounds == {F(-1), F(2)}

ServicePoints == {-1, 1, 10}

ServiceAxisMinima == {F(0), R(1, 10), F(300)}

ServiceAxisMaxima == {F(-5), F(0), F(1000), F(2000000)}

ServiceAxisPoints == {1, 10}

SpacingSamples == {"linear", "log", "cubic"}

----------------------------------------------------------------------------
(* The state machine: a caller invokes one engine function and gets its
   result (or the exception it raised). *)

Init ==
    /\ pc = "idle"
    /\ op = "none"
    /\ args = <<>>
    /\ ret = <<>>

Call_fermi_dirac ==
    /\ pc = "idle"
    /\ \E base \in {0, 1}, e \in EnergyArrays,
          t \in Temperatures, m \in MuSamples :
          /\ Representable(base, m)
          /\ \A i \in DOMAIN e : Representable(base, e[i])
          /\ args' = [energy |-> ToFloat64(e), temperature |-> t,
                      mu |-> F(m), base |-> base]
          /\ ret' = fermi_dirac(ToFloat64(e), t, F(m), K_BOLTZMANN_EV)
    /\ op' = "fermi_dirac"
    /\ pc' = "returned"

Call_fermi_dirac_derivative ==
    /\ pc = "idle"
    /\ \E e \in DerivativeArrays, t \in Temperatures, m \in MuSamples :
          /\ args' = [energy |-> ToFloat64(e), temperature |-> t, mu |-> F(m)]
          /\ ret' = fermi_dirac_derivative(ToFloat64(e), t, F(m), K_BOLTZMANN_EV)
    /\ op' = "fermi_dirac_derivative"
    /\ pc' = "returned"

Call_maxwell_boltzmann ==
    /\ pc = "idle"
    /\ \E e \in ClassicalArrays, t \in Temperatures, m \in MuSamples :
          /\ args' = [energy |-> ToFloat64(e), temperature |-> t, mu |-> F(m)]
          /\ ret' = maxwell_boltzmann(ToFloat64(e), t, F(m), K_BOLTZMANN_EV)
    /\ op' = "maxwell_boltzmann"
    /\ pc' = "returned"

Call_generate_energy_grid ==
    /\ pc = "idle"
    /\ \E lo \in GridBounds, hi \in GridBounds,
          n \in -1..MaxPoints, sp \in SpacingSamples :
          /\ args' = [e_min |-> F(lo), e_max |-> F(hi), n_points |-> n,
                      spacing |-> sp]
          /\ ret' = generate_energy_grid(F(lo), F(hi), n, sp)
    /\ op' = "generate_energy_grid"
    /\ pc' = "returned"

Call_compute_multi_temperature ==
    /\ pc = "idle"
    /\ \E e \in BatchGrids, ts \in TemperatureLists, m \in MuSamples :
          /\ args' = [energy |-> ToFloat64(e), temperatures |-> ToFloat64(ts),
                      mu |-> F(m)]
          /\ ret' = compute_multi_temperature(ToFloat64(e), ToFloat64(ts), F(m),
                                              K_BOLTZMANN_EV)
    /\ op' = "compute_multi_temperature"
    /\ pc' = "returned"

Call_compute_2d_surface ==
    /\ pc = "idle"
    /\ \E e \in BatchGrids, ts \in TemperatureLists, m \in MuSamples :
          /\ args' = [energy |-> ToFloat64(e), temperatures |-> ToFloat64(ts),
                      mu |-> F(m)]
          /\ ret' = compute_2d_surface(ToFloat64(e), ToFloat64(ts), F(m),
                                       K_BOLTZMANN_EV)
    /\ op' = "compute_2d_surface"
    /\ pc' = "returned"

Request_fermi_dirac ==
    /\ pc = "idle"
    /\ \E t \in ServiceTemperatures, m \in ServiceMus,
          lo \in ServiceEnergyBounds, hi \in ServiceEnergyBounds,
          n \in ServicePoints :
          LET req == [temperature |-> t, mu |-> m, energy_min |-> lo,
                      energy_max |-> hi, points |-> n]
          IN  args' = req /\ ret' = compute_fermi_dirac(req)
    /\ op' = "POST /fermi-dirac"
    /\ pc' = "returned"

Request_multi_temperature ==
    /\ pc = "idle"
    /\ \E ts \in ServiceTemperatureLists, m \in ServiceMus,
          lo \in ServiceEnergyBounds, hi \in ServiceEnergyBounds,
          n \in ServicePoints, mb \in BOOLEAN :
          LET req == [temperatures |-> ts, mu |-> m, energy_min |-> lo,
                      energy_max |-> hi, points |-> n,
                      include_maxwell_boltzmann |-> mb]
          IN  args' = req /\ ret' = main_compute_multi_temperature(req)
    /\ op' = "POST /multi-temperature"
    /\ pc' = "returned"

Request_zero_temperature ==
    /\ pc = "idle"
    /\ \E m \in ServiceMus, lo \in ServiceEnergyBounds,
          hi \in ServiceEnergyBounds, n \in ServicePoints :
          LET req == [mu |-> m, energy_min |-> lo, energy_max |-> hi,
                      points |-> n]
          IN  args' = req /\ ret' = compute_zero_temperature(req)
    /\ op' = "GET /zero-temperature"
    /\ pc' = "returned"

Request_surface ==
    /\ pc = "idle"
    /\ \E lo \in ServiceEnergyBounds, hi \in ServiceEnergyBounds,
          n \in ServiceAxisPoints, tlo \in ServiceAxisMinima,
          thi \in ServiceAxisMaxima, tn \in ServiceAxisPoints,
          sc \in SpacingSamples :
          LET req == [mu |-> F(0), energy_min |-> lo, energy_max |-> hi,
                      energy_points |-> n, temp_min |-> tlo, temp_max |-> thi,
                      temp_points |-> tn, temp_scale |-> sc]
          IN  args' = req /\ ret' = compute_surface(req)
    /\ op' = "POST /surface"
    /\ pc' = "returned"

Request_derivative ==
    /\ pc = "idle"
    /\ \E t \in ServiceTemperatures, lo \in ServiceEnergyBounds,
          hi \in ServiceEnergyBounds, n \in ServicePoints \cup {0} :
          LET req == [temperature |-> t, mu |-> F(0), energy_min |-> lo,
                      energy_max |-> hi, points |-> n]
          IN  args' = req /\ ret' = compute_derivative(req)
    /\ op' = "GET /derivative"
    /\ pc' = "returned"

Request_export_csv ==
    /\ pc = "idle"
    /\ \E t \in ServiceTemperatures, lo \in ServiceEnergyBounds,
          hi \in ServiceEnergyBounds, n \in ServicePoints :
          LET req == [temperature |-> t, mu |-> F(0), energy_min |-> lo,
                      energy_max |-> hi, points |-> n]
          IN  args' = req /\ ret' = export_csv(req)
    /\ op' = "GET /export/csv"
    /\ pc' = "returned"

Return ==
    /\ pc = "returned"
    /\ pc' = "idle"
    /\ op' = "none"
    /\ args' = <<>>
    /\ ret' = <<>>

Next ==
    \/ Call_fermi_dirac
    \/ Call_fermi_dirac_derivative
    \/ Call_maxwell_boltzmann
    \/ Call_generate_energy_grid
    \/ Call_compute_multi_temperature
    \/ Call_compute_2d_surface
    \/ Request_fermi_dirac
    \/ Request_multi_temperature
    \/ Request_zero_temperature
    \/ Request_surface
    \/ Request_derivative
    \/ Request_export_csv
    \/ Return

Spec == Init /\ [][Next]_vars

----------------------------------------------------------------------------
(* Properties *)

Returned(name) == pc = "returned" /\ op = name

\* T <= 0 or |T| <= 1e-10 K (155.236 temperature units)
TreatedAsZero(t) == t.n * 1000 <= 155236 * t.d

\* 1.0 below mu, 0.0 above mu, 0.5 at mu
StepAt(e, m) ==
    IF e.n * m.d < m.n * e.d THEN F(1)
    ELSE IF e.n * m.d > m.n * e.d THEN F(0)
    ELSE R(1, 2)

\* x = (E - mu)/(k_B*T), with k_B*T = T energy units
XOf(e, m, t) == Div(Sub(e, m), Mul(K_BOLTZMANN_EV, t))

\* 0 <= v <= 1
InUnit(v) ==
    CASE v.k = "rat" -> 0 <= v.n /\ v.n <= v.d
      [] v.k = "sig" -> TRUE
      [] v.k = "exp" -> v.n < 0
      [] OTHER -> FALSE

\* C1: at T = 0, and at every T <= 0 or within 1e-10 of 0, fermi_dirac
\* returns exactly 1.0 below mu, 0.0 above mu and 0.5 at mu, and never
\* evaluates (E - mu)/(k_B*T).
C1_ZeroTemperatureStep ==
    (Returned("fermi_dirac") /\ TreatedAsZero(args.temperature)) =>
        /\ ~ret.raised
        /\ ret.branch = "step"
        /\ ret.x = <<>>
        /\ DOMAIN ret.value = DOMAIN args.energy
        /\ \A i \in DOMAIN args.energy :
              ret.value[i] = StepAt(args.energy[i], args.mu)

C1_Witness ==
    /\ Returned("fermi_dirac")
    /\ args.temperature = F(155)
    /\ \E i, j \in DOMAIN args.energy :
          /\ args.energy[i].n < args.mu.n
          /\ args.energy[j] = args.mu
          /\ ret.value[i] = F(1)
          /\ ret.value[j] = R(1, 2)

C4_FiniteWithinUnitInterval ==
    (Returned("fermi_dirac") /\ args.temperature.n >= 0) =>
        /\ ~ret.raised
        /\ \A i \in DOMAIN ret.value :
              IsFinite(ret.value[i]) /\ InUnit(ret.value[i])

C4_Witness ==
    /\ Returned("fermi_dirac")
    /\ ~TreatedAsZero(args.temperature)
    /\ \E i, j \in DOMAIN ret.value :
          /\ ret.value[i].k = "exp"
          /\ ret.value[j].k = "sig"

\* C5: for every T > 0 the value at E == mu is 0.5; beyond the tolerance the
\* element has x = 0 and is written by the middle regime alone.
C5_HalfAtChemicalPotential ==
    (Returned("fermi_dirac") /\ args.temperature.n > 0) =>
        \A i \in DOMAIN args.energy :
            args.energy[i] = args.mu =>
                /\ ret.value[i] = R(1, 2)
                /\ ~TreatedAsZero(args.temperature) =>
                      /\ ret.x[i] = F(0)
                      /\ ~mask_low(ret.x)[i]
                      /\ ~mask_high(ret.x)[i]
                      /\ ret.writes[i] = 1

C5_Witness ==
    /\ Returned("fermi_dirac")
    /\ args.temperature = F(156)
    /\ \E i \in DOMAIN args.energy :
          args.energy[i] = args.mu /\ ret.value[i] = R(1, 2)

\* v + w = 1 within 1e-9, where that is certain: e^b <= 1e-9 for b <= -21,
\* 1/(e^a + 1) <= 1e-9 for a >= 21, and 1/(e^a + 1) + 1/(e^-a + 1) = 1
SumWithinTol(v, w) ==
    CASE v.k = "rat" /\ w.k = "rat" -> Add(v, w) = F(1)
      [] v.k = "sig" /\ w.k = "sig" -> v.n * w.d + w.n * v.d = 0
      [] v = F(1) /\ w.k = "exp" -> RatLeInt(w, -21)
      [] v.k = "exp" /\ w = F(1) -> RatLeInt(v, -21)
      [] v = F(1) /\ w.k = "sig" -> RatGeInt(w, 21)
      [] v.k = "sig" /\ w = F(1) -> RatGeInt(v, 21)
      [] v = F(0) /\ w.k = "sig" -> RatLeInt(w, -21)
      [] v.k = "sig" /\ w = F(0) -> RatLeInt(v, -21)
      [] v.k = "exp" /\ w.k = "sig" -> RatLeInt(v, -21) /\ RatLeInt(w, -21)
      [] v.k = "sig" /\ w.k = "exp" -> RatLeInt(v, -21) /\ RatLeInt(w, -21)
      [] OTHER -> FALSE

\* v + w differs from 1 by more than 1e-9, where that is certain: the slope
\* of 1/(e^a + 1) is at least 0.19 in magnitude for |a| <= 1
SumOutsideTol(v, w) ==
    CASE v.k = "rat" /\ w.k = "rat" ->
            LET s == Add(v, w) IN Abs(s.n - s.d) * 1000 > s.d
      [] v.k = "sig" /\ w = R(1, 2) ->
            Abs(v.n) <= v.d /\ Abs(v.n) * 1000 >= v.d
      [] v = R(1, 2) /\ w.k = "sig" ->
            Abs(w.n) <= w.d /\ Abs(w.n) * 1000 >= w.d
      [] v.k = "sig" /\ w.k = "sig" ->
            /\ Abs(v.n) <= v.d
            /\ Abs(w.n) <= w.d
            /\ Abs(v.n * w.d + w.n * v.d) * 1000 >= v.d * w.d
      [] OTHER -> FALSE

\* v >= w, where that is certain
Ge(v, w) ==
    CASE v.k = "rat" /\ w.k = "rat" -> v.n * w.d >= w.n * v.d
      [] v.k = "sig" /\ w.k = "sig" -> v.n * w.d <= w.n * v.d
      [] v.k = "exp" /\ w.k = "exp" -> v.n * w.d >= w.n * v.d
      [] v.k = "rat" /\ w.k = "sig" ->
            RatGeInt(v, 1) \/ (v = R(1, 2) /\ w.n >= 0)
      [] v.k = "sig" /\ w.k = "rat" ->
            RatLeInt(w, 0) \/ (w = R(1, 2) /\ v.n <= 0)
      [] v.k = "rat" /\ w.k = "exp" ->
            RatGeInt(v, 1) \/ (v = R(1, 2) /\ RatLeInt(w, -1))
      [] v.k = "exp" /\ w.k = "rat" -> RatLeInt(w, 0)
      [] v.k = "sig" /\ w.k = "exp" ->
            IF v.n < 0 THEN RatLeInt(w, -1)
            ELSE w.n * v.d <= (0 - v.n - v.d) * w.d
      [] OTHER -> FALSE

\* the float64 result of 2*mu - E: exact when representable, otherwise the
\* neighbour with the even significand (round to nearest, ties to even)
MirrorF64(base, m, e) ==
    LET exact == 2 * m - e
    IN  IF Representable(base, exact) THEN exact
        ELSE IF (exact - 1) % 4 = 0 THEN exact - 1
        ELSE exact + 1

\* C2 (as stated): a negative temperature makes fermi_dirac,
\* fermi_dirac_derivative and maxwell_boltzmann fail with an error.
C2_NegativeTemperatureRaises ==
    (/\ pc = "returned"
     /\ op \in {"fermi_dirac", "fermi_dirac_derivative", "maxwell_boltzmann"}
     /\ args.temperature.n < 0) => ret.raised

\* index i is one of the energies nearest mu
NearestToMu(i) ==
    \A j \in DOMAIN args.energy :
        Abs(args.energy[i].n - args.mu.n) <= Abs(args.energy[j].n - args.mu.n)

\* C2 (amended): a negative temperature is handled as zero temperature and
\* raises no temperature error: fermi_dirac returns the step function,
\* maxwell_boltzmann returns zeros, and fermi_dirac_derivative returns zeros
\* with one spike -1/|E[1] - E[0]| at an energy nearest mu (all zeros for a
\* single energy; on an empty array np.argmin raises ValueError).
C2_NegativeTemperatureHandledAsZero ==
    (/\ pc = "returned"
     /\ op \in {"fermi_dirac", "fermi_dirac_derivative", "maxwell_boltzmann"}
     /\ args.temperature.n < 0) =>
        /\ op = "fermi_dirac" =>
              /\ ~ret.raised
              /\ ret.x = <<>>
              /\ DOMAIN ret.value = DOMAIN args.energy
              /\ \A i \in DOMAIN args.energy :
                    ret.value[i] = StepAt(args.energy[i], args.mu)
        /\ op = "maxwell_boltzmann" =>
              /\ ~ret.raised
              /\ ret.x = <<>>
              /\ DOMAIN ret.value = DOMAIN args.energy
              /\ \A i \in DOMAIN args.energy : ret.value[i] = F(0)
        /\ op = "fermi_dirac_derivative" =>
              IF Len(args.energy) = 0
              THEN ret.raised /\ ret.exc = "ValueError"
              ELSE /\ ~ret.raised
                   /\ ret.x = <<>>
                   /\ DOMAIN ret.value = DOMAIN args.energy
                   /\ Len(args.energy) = 1 => ret.value[1] = F(0)
                   /\ Len(args.energy) > 1 =>
                         \E idx \in DOMAIN args.energy :
                             /\ NearestToMu(idx)
                             /\ ret.value[idx] =
                                   Div(F(-1), AbsV(Sub(args.energy[2], args.energy[1])))
                             /\ \A j \in DOMAIN args.energy \ {idx} :
                                   ret.value[j] = F(0)

C2_Witness ==
    /\ Returned("fermi_dirac_derivative")
    /\ args.temperature.n < 0
    /\ Len(args.energy) = 2
    /\ args.energy[1] # args.energy[2]
    /\ \E idx \in DOMAIN ret.value : ret.value[idx].n < 0

\* C6 (as stated): for every T > 0, mu and E, fermi_dirac at E and at the
\* float64 energy 2*mu - E add up to 1 within 1e-9.
C6_SymmetryAtComputedMirror ==
    (Returned("fermi_dirac") /\ args.temperature.n > 0) =>
        \A i, j \in DOMAIN args.energy :
            args.energy[j].n = MirrorF64(args.base, args.mu.n, args.energy[i].n)
                => ~SumOutsideTol(ret.value[i], ret.value[j])

\* C6 (amended): for every T > 0, mu and E whose mirror energy 2*mu - E is a
\* float64 (the subtraction does not round), the values at E and at 2*mu - E
\* add up to 1 within 1e-9, also across the x > 700 and x < -700 regimes and
\* at |x| = 700.
C6_SymmetryAtExactMirror ==
    (Returned("fermi_dirac") /\ args.temperature.n > 0) =>
        \A i, j \in DOMAIN args.energy :
            (/\ Representable(args.base, 2 * args.mu.n - args.energy[i].n)
             /\ args.energy[j].n = 2 * args.mu.n - args.energy[i].n)
                => SumWithinTol(ret.value[i], ret.value[j])

C6_Witness ==
    /\ Returned("fermi_dirac")
    /\ ~TreatedAsZero(args.temperature)
    /\ \E i, j \in DOMAIN args.energy :
          /\ args.energy[j].n = 2 * args.mu.n - args.energy[i].n
          /\ ret.x[i].n > 700 * ret.x[i].d
          /\ ret.value[i].k = "exp"
          /\ ret.value[j] = F(1)

\* C7: for fixed T >= 0 and mu the values do not increase with the energy.
C7_NonIncreasingInEnergy ==
    (Returned("fermi_dirac") /\ args.temperature.n >= 0) =>
        \A i, j \in DOMAIN args.energy :
            args.energy[i].n <= args.energy[j].n
                => Ge(ret.value[i], ret.value[j])

C7_Witness ==
    /\ Returned("fermi_dirac")
    /\ ~TreatedAsZero(args.temperature)
    /\ \E i, j \in DOMAIN args.energy :
          /\ args.energy[i].n < args.energy[j].n
          /\ ret.value[i].k = "sig"
          /\ ret.value[j].k = "exp"

\* C8 (as stated): generate_energy_grid fails with an error when
\* max <= min or when n < 2.
C8_InvalidGridRaises ==
    (/\ Returned("generate_energy_grid")
     /\ args.e_max.n <= args.e_min.n \/ args.n_points < 2) => ret.raised

\* C9 (as stated): log spacing with min <= 0 fails, and an unknown spacing
\* fails with an error of another kind than that one.
C9_DistinctErrorKinds ==
    Returned("generate_energy_grid") =>
        /\ (args.spacing = "log" /\ args.e_min.n <= 0) => ret.raised
        /\ args.spacing \notin {"linear", "log"} =>
              /\ ret.raised
              /\ ret.exc # generate_energy_grid(F(0), F(2), 2, "log").exc

\* C9 (amended): log spacing with min <= 0 and an unknown spacing both fail
\* with a ValueError, told apart by the message alone, and in both cases no
\* grid value is computed.
C9_ValueErrorBeforeGrid ==
    Returned("generate_energy_grid") =>
        /\ (args.spacing = "log" /\ args.e_min.n <= 0) =>
              /\ ret.raised
              /\ ret.exc = "ValueError"
              /\ ret.msg = "Logarithmic spacing requires positive e_min"
              /\ ret.value = <<>>
        /\ args.spacing \notin {"linear", "log"} =>
              /\ ret.raised
              /\ ret.exc = "ValueError"
              /\ ret.msg = "Unknown spacing type"
              /\ ret.value = <<>>

C9_Witness ==
    /\ Returned("generate_energy_grid")
    /\ args.spacing = "log"
    /\ args.e_min.n <= 0
    /\ args.e_max.n > args.e_min.n
    /\ args.n_points >= 2
    /\ ret.raised

\* the grid value v is the bound: exactly for a linear grid, up to the
\* rounding of 10**log10(bound) for a logarithmic one
GridAt(v, bound) ==
    CASE v.k = "rat" -> v = bound
      [] v.k = "pow10" -> v.n = 0 /\ v.a = bound
      [] OTHER -> FALSE

\* the position of a grid value between e_min (0) and e_max (1)
GridPosition(v, lo, hi) ==
    CASE v.k = "rat" -> Div(Sub(v, lo), Sub(hi, lo))
      [] v.k = "pow10" ->
            IF v.n = 0 THEN (IF v.a = lo THEN F(0) ELSE F(1))
            ELSE R(v.n, v.d)
      [] OTHER -> NaN

\* v < w for two values of the grid from lo to hi
GridBelow(v, w, lo, hi) ==
    /\ Lt(lo, hi)
    /\ Lt(GridPosition(v, lo, hi), GridPosition(w, lo, hi))

\* C10 (as stated): a grid that generate_energy_grid returns has exactly n
\* elements, starts at min, ends at max and is strictly increasing.
C10_GridShape ==
    (Returned("generate_energy_grid") /\ ~ret.raised) =>
        /\ Len(ret.value) = args.n_points
        /\ args.n_points >= 1
        /\ GridAt(ret.value[1], args.e_min)
        /\ GridAt(ret.value[args.n_points], args.e_max)
        /\ \A i, j \in DOMAIN ret.value :
              i < j => GridBelow(ret.value[i], ret.value[j], args.e_min, args.e_max)

\* v <= 0 and v < 0, for the values the derivative returns
NonPositive(v) ==
    CASE v.k = "rat" -> v.n <= 0
      [] v.k = "sech2" -> v.sn < 0
      [] v.k = "inf" -> v.n < 0
      [] OTHER -> FALSE

Negative(v) ==
    CASE v.k = "rat" -> v.n < 0
      [] v.k = "sech2" -> v.sn < 0
      [] v.k = "inf" -> v.n < 0
      [] OTHER -> FALSE

\* -sech^2(x/2)/(4*k_B*T) for 0 < |x| < 500 and for x = 0
ClosedFormDerivative(x, t) ==
    LET half == R(x.n, 2 * x.d)
        scale == R(0 - t.d, 4 * t.n)
    IN  IF x.n = 0 THEN scale
        ELSE [k |-> "sech2", n |-> Abs(half.n), d |-> half.d,
              sn |-> scale.n, sd |-> scale.d]

\* C11: for T > 0 fermi_dirac_derivative returns one value per energy, every
\* value is <= 0, every element with |x| >= 500 is exactly zero and every
\* element with |x| < 500 is -sech^2(x/2)/(4*k_B*T), strictly negative.
\* (At a subnormal T the element at E = mu has x = 0 and every other
\* element has |x| >= 500.)
C11_DerivativeClosedForm ==
    (Returned("fermi_dirac_derivative") /\ args.temperature.n > 0) =>
        /\ ~ret.raised
        /\ DOMAIN ret.value = DOMAIN args.energy
        /\ \A i \in DOMAIN args.energy :
              LET v == ret.value[i]
                  t == args.temperature
              IN  /\ NonPositive(v)
                  /\ IF t.k = "tiny"
                     THEN IF args.energy[i] = args.mu THEN Negative(v)
                          ELSE v = F(0)
                     ELSE LET x == XOf(args.energy[i], args.mu, t)
                          IN  IF Abs(x.n) >= 500 * x.d THEN v = F(0)
                              ELSE /\ v = ClosedFormDerivative(x, t)
                                   /\ Negative(v)

\* an EnergyGrid: at least one point, strictly increasing
IsEnergyGrid(e) ==
    /\ Len(e) >= 1
    /\ \A i \in 1..(Len(e) - 1) : e[i].n < e[i + 1].n

\* the grid spacings local to index i: to the left neighbour, to the right
\* neighbour, and their mean
LocalSpacings(e, i) ==
    (IF i > 1 THEN {Sub(e[i], e[i - 1])} ELSE {})
    \cup (IF i < Len(e) THEN {Sub(e[i + 1], e[i])} ELSE {})
    \cup (IF i > 1 /\ i < Len(e)
          THEN {Div(Sub(e[i + 1], e[i - 1]), F(2))} ELSE {})

\* C12: at T = 0 fermi_dirac_derivative returns zeros except at exactly one
\* index, a grid index nearest mu, where the value is the negative
\* reciprocal of a grid spacing local to that index; a grid of length 1 has
\* its spike at its only index.
C12_SpikeAtNearestIndex ==
    (/\ Returned("fermi_dirac_derivative")
     /\ args.temperature = F(0)
     /\ IsEnergyGrid(args.energy)) =>
        /\ ~ret.raised
        /\ DOMAIN ret.value = DOMAIN args.energy
        /\ \E idx \in DOMAIN args.energy :
              /\ NearestToMu(idx)
              /\ Negative(ret.value[idx])
              /\ Len(args.energy) > 1 =>
                    \E dE \in LocalSpacings(args.energy, idx) :
                        ret.value[idx] = Div(F(-1), dE)
              /\ \A j \in DOMAIN args.energy \ {idx} : ret.value[j] = F(0)

\* x = (E - mu)/(k_B*T) clipped into [-700, 700]; at a subnormal T the
\* quotient is 0 at E = mu and beyond the clip bounds elsewhere
ClippedX(e, m, t) ==
    IF t.k = "tiny"
    THEN (IF e.n < m.n THEN F(-700) ELSE IF e.n > m.n THEN F(700) ELSE F(0))
    ELSE LET x == XOf(e, m, t)
         IN  IF x.n < -700 * x.d THEN F(-700)
             ELSE IF x.n > 700 * x.d THEN F(700)
             ELSE x

\* exp(-700) <= v <= exp(700)
WithinClassicalRange(v) ==
    CASE v.k = "rat" -> v = F(1)
      [] v.k = "exp" -> RatGeInt(v, -700) /\ RatLeInt(v, 700)
      [] OTHER -> FALSE

\* C13: maxwell_boltzmann returns zeros, one per energy, whenever T <= 0, and
\* for T > 0 returns exp(-c) per element, c being x clipped into [-700, 700],
\* so that every value is finite and between exp(-700) and exp(700).
C13_ClassicalLimit ==
    Returned("maxwell_boltzmann") =>
        /\ ~ret.raised
        /\ DOMAIN ret.value = DOMAIN args.energy
        /\ \A i \in DOMAIN args.energy :
              IF args.temperature.n <= 0 THEN ret.value[i] = F(0)
              ELSE /\ ret.value[i] =
                         Exp(Neg(ClippedX(args.energy[i], args.mu, args.temperature)))
                   /\ IsFinite(ret.value[i])
                   /\ WithinClassicalRange(ret.value[i])

\* C14: compute_multi_temperature returns one curve per input temperature,
\* in input order, compute_2d_surface a matrix with one row per temperature
\* and one column per energy, and curve i and row i both equal
\* fermi_dirac(energies, temperatures[i], mu), whatever the other
\* temperatures of the list are (duplicates and unsorted lists included).
C14_BatchRowsAreSingleCurves ==
    (pc = "returned" /\ op \in {"compute_multi_temperature", "compute_2d_surface"}) =>
        /\ ~ret.raised
        /\ DOMAIN ret.value = DOMAIN args.temperatures
        /\ \A i \in DOMAIN args.temperatures :
              /\ DOMAIN ret.value[i] = DOMAIN args.energy
              /\ ret.value[i] =
                    fermi_dirac(args.energy, args.temperatures[i], args.mu,
                                K_BOLTZMANN_EV).value

C14_Witness ==
    /\ Returned("compute_2d_surface")
    /\ Len(args.temperatures) = 3
    /\ Len(args.energy) = 3
    /\ args.temperatures[1] = args.temperatures[3]
    /\ args.temperatures[2].n < args.temperatures[1].n
    /\ ret.value[1] = ret.value[3]
    /\ ret.value[1] # ret.value[2]

EndpointOps ==
    {"POST /fermi-dirac", "POST /multi-temperature", "GET /zero-temperature",
     "POST /surface", "GET /derivative", "GET /export/csv"}

\* a temperature of the axis is a real number >= 0, and > 0
IsNonNegativeReal(v) ==
    CASE v.k = "rat" -> v.n >= 0
      [] v.k = "pow10" -> TRUE
      [] OTHER -> FALSE

IsPositiveReal(v) ==
    CASE v.k = "rat" -> v.n > 0
      [] v.k = "pow10" -> TRUE
      [] OTHER -> FALSE

\* the axis from lo to hi does not decrease; the points of a logarithmic
\* axis follow the order of its end points
AxisOrdered(ts, lo, hi) ==
    \A i, j \in DOMAIN ts :
        i < j => CASE ts[i].k = "rat" /\ ts[j].k = "rat" -> Le(ts[i], ts[j])
                   [] ts[i].k = "pow10" /\ ts[j].k = "pow10" -> Le(lo, hi)
                   [] OTHER -> FALSE

\* C15: every engine call an endpoint makes has validated arguments: the
\* grid generator gets energy_max > energy_min and at least 2 points, the
\* distribution functions get a temperature >= 0, and the temperature axis
\* of /surface is an ordered sequence of non-negative reals, all positive
\* when the scale is log.
C15_EndpointsPassValidatedInputs ==
    (pc = "returned" /\ op \in EndpointOps) =>
        \A k \in DOMAIN ret.calls :
            LET c == ret.calls[k]
            IN  /\ c.fn = "generate_energy_grid" =>
                      /\ Lt(c.a.e_min, c.a.e_max)
                      /\ c.a.n_points >= 2
                /\ c.fn \in {"fermi_dirac", "fermi_dirac_derivative",
                             "maxwell_boltzmann", "thermal_smearing_width"} =>
                      Le(F(0), c.a.temperature)
                /\ c.fn = "compute_2d_surface" =>
                      /\ \A i \in DOMAIN c.a.temperatures :
                            IsNonNegativeReal(c.a.temperatures[i])
                      /\ AxisOrdered(c.a.temperatures, args.temp_min, args.temp_max)
                      /\ args.temp_scale = "log" =>
                            \A i \in DOMAIN c.a.temperatures :
                                IsPositiveReal(c.a.temperatures[i])

\* C16: the three engines agree on which temperatures count as zero: for
\* the same energies, temperature and chemical potential, fermi_dirac returns
\* the step iff fermi_dirac_derivative returns the spike array iff
\* maxwell_boltzmann returns the all-zero array; in particular for
\* 0 < T <= 1e-10 K.
C16_EnginesAgreeOnZeroTemperature ==
    (Returned("fermi_dirac") /\ Len(args.energy) > 0) =>
        LET d == fermi_dirac_derivative(args.energy, args.temperature, args.mu,
                                        K_BOLTZMANN_EV)
            m == maxwell_boltzmann(args.energy, args.temperature, args.mu,
                                   K_BOLTZMANN_EV)
        IN  /\ (ret.branch = "step") <=> (d.branch = "spike")
            /\ (ret.branch = "step") <=> (m.branch = "zeros")

====
